---- MODULE Spec2Model ----
(***************************************************************************)
(* Fitness Studio Booking API: the SQLite tables `classes` and `bookings`  *)
(* and BookingService.create_booking, which reaches the database through   *)
(* three separately committed operations (one execute_query and two        *)
(* execute_insert calls).  Each operation opens its own connection, runs   *)
(* one statement, commits and closes, so one operation is one atomic step  *)
(* and the steps of different calls interleave freely.                     *)
(***************************************************************************)
EXTENDS Integers, Sequences, FiniteSets, TLC

\* ------------------------------------------------------------------ bounds
\* Number of create_booking invocations (call slots) the model runs.
NumCalls == 2
\* The stored database starts with at most this many free slots per class.
MaxInitAvail == 2
\* Storage operations that the environment makes fail (sqlite3 errors).
MaxFailures == 1
\* The latest reading of the clock (datetime.utcnow) the model runs to.
MaxTime == 2
\* Number of runs of seed_sample_data (application start-ups) the model runs.
NumSeeders == 2

Calls == 1..NumCalls
Seeders == 1..NumSeeders

None == "None"

\* --------------------------------------------------------- program data
\* seed_data.py: the three sample classes (name, instructor, days ahead, slots).
SampleClasses ==
    << [name |-> "Yoga Basics", instructor |-> "Priya Sharma", days |-> 1, slots |-> 20],
       [name |-> "HIIT Blast", instructor |-> "Rahul Mehta", days |-> 2, slots |-> 15],
       [name |-> "Zumba Fun", instructor |-> "Anjali Rao", days |-> 3, slots |-> 25] >>

\* The row seed_sample_data inserts for sample n: AUTOINCREMENT id n, and
\* available_slots = total_slots = slots.
SeedRow(n) ==
    [id |-> n,
     name |-> SampleClasses[n].name,
     instructor |-> SampleClasses[n].instructor,
     datetime_utc |-> SampleClasses[n].days,
     total_slots |-> SampleClasses[n].slots,
     available_slots |-> SampleClasses[n].slots]

\* class_id values a request carries: ids of seeded classes and one that no
\* class has.
RequestIds == {1, 2, 999}
\* client_email values of requests: the client behind call slot i.
Emails == <<"a@x.com", "b@x.com">>
EmailOf(i) == Emails[((i - 1) % Len(Emails)) + 1]
\* timezone values of requests; BookingRequest.timezone is an unvalidated str.
Timezones == {"Asia/Kolkata", "Mars/Phobos"}
\* pytz.all_timezones, as far as the requests above can tell.
validate_timezone(tz) == tz \in {"UTC", "Asia/Kolkata"}

VARIABLES
    classes,     \* table classes: sequence of rows in rowid order
    ledger,      \* table bookings: its set of rows (PRIMARY KEY id)
    pc,          \* pc[i]: where call i stands in create_booking
    req,         \* req[i]: the BookingRequest of call i
    class_data,  \* class_data[i]: the row call i read (class_row[0])
    booking_time,\* booking_time[i]: datetime.utcnow() as call i read it
    result,      \* result[i]: how the last attempt of call i ended
    attempts,    \* attempts[i]: retries the caller of i has made
    wrote,       \* wrote[i]: writes the current attempt of i has committed
    earlier,     \* earlier[i]: writes committed by earlier, failed attempts
    failures,    \* storage failures so far
    now,         \* the clock
    classes0,    \* the classes table as it was in the initial state
    seed_pc,     \* seed_pc[s]: where run s of seed_sample_data stands
    seed_now,    \* seed_now[s]: datetime.utcnow() as run s read it
    view         \* the response of the read the last step served, if any

vars == <<classes, ledger, pc, req, class_data, booking_time, result,
          attempts, wrote, earlier, failures, now, classes0, seed_pc,
          seed_now, view>>

NoWrites == [ins |-> 0, dec |-> 0]

\* req[i] before call i is made.
NoRequest == [class_id |-> 0, client_email |-> "", timezone |-> ""]

\* seed_pc[s] before run s of seed_sample_data starts; n is the sample
\* class the run inserts next.
SeedIdle == [at |-> "idle", n |-> 0]

\* view when the last step served no read.
NoView == [op |-> "none"]

\* ------------------------------------------------------------- database
\* (mutant: the WHERE clause is lost)
SelectClassNoWhere(tbl, cid) == tbl

\* SELECT * FROM classes WHERE id = ?
SelectClass(tbl, cid) == SelectSeq(tbl, LAMBDA r : r.id = cid)

\* (mutant: the check is off by one)
NoSlotsStrict(row) == row.available_slots < 0

\* if class_data["available_slots"] <= 0
NoSlots(row) == row.available_slots <= 0

\* (mutant: the id does not depend on the invocation)
uuid4Fixed(i, a) == <<0, 0>>

\* uuid.uuid4(): a value no other invocation produces; the invocation is
\* attempt a of call i.
uuid4(i, a) == <<i, a>>

\* The row INSERT INTO bookings (id, class_id, client_name, client_email,
\* booking_time) creates; status takes the column default.
BookingRow(id, r, t) ==
    [id |-> id, class_id |-> r.class_id, client_email |-> r.client_email,
     booking_time |-> t, status |-> "confirmed"]

\* (mutant: the table is overwritten)
InsertBookingOverwrite(tbl, row) == {row}

InsertBooking(tbl, row) == tbl \cup {row}

\* (mutant: the decrement takes two slots)
DecrementSlotsByTwo(tbl, cid) ==
    [k \in 1..Len(tbl) |->
        IF tbl[k].id = cid
        THEN [tbl[k] EXCEPT !.available_slots = @ - 2]
        ELSE tbl[k]]

\* (mutant: the WHERE clause is lost)
DecrementSlotsNoWhere(tbl, cid) ==
    [k \in 1..Len(tbl) |-> [tbl[k] EXCEPT !.available_slots = @ - 1]]

\* UPDATE classes SET available_slots = available_slots - 1 WHERE id = ?
DecrementSlots(tbl, cid) ==
    [k \in 1..Len(tbl) |->
        IF tbl[k].id = cid
        THEN [tbl[k] EXCEPT !.available_slots = @ - 1]
        ELSE tbl[k]]

\* ----------------------------------------------------------------- Init
\* The stored database of a run that follows earlier runs: seeded, and with
\* the completed bookings that left `free` slots in each class requests name,
\* made one after another at different readings of the clock.
PriorRows(n, count) ==
    {BookingRow(<<0, n * 100 + k>>,
                [class_id |-> n, client_email |-> EmailOf(k)],
                0 - (n * 100 + k)) : k \in 1..count}

SeededDb(free) ==
    /\ classes = [n \in 1..Len(SampleClasses) |->
                    [SeedRow(n) EXCEPT !.available_slots =
                        IF n \in RequestIds THEN free ELSE @]]
    /\ ledger = UNION {PriorRows(n, SampleClasses[n].slots - free) :
                         n \in RequestIds \cap (1..Len(SampleClasses))}

\* After init_database() and before seed_sample_data(): both tables empty.
EmptyDb == classes = << >> /\ ledger = {}

Init ==
    /\ \/ EmptyDb
       \/ \E free \in 0..MaxInitAvail : SeededDb(free)
    /\ classes0 = classes
    /\ pc = [i \in Calls |-> "idle"]
    /\ req = [i \in Calls |-> NoRequest]
    /\ class_data = [i \in Calls |-> None]
    /\ booking_time = [i \in Calls |-> None]
    /\ now = 1
    /\ result = [i \in Calls |-> None]
    /\ attempts = [i \in Calls |-> 0]
    /\ wrote = [i \in Calls |-> NoWrites]
    /\ earlier = [i \in Calls |-> NoWrites]
    /\ failures = 0
    /\ seed_pc = [s \in Seeders |-> SeedIdle]
    /\ seed_now = [s \in Seeders |-> None]
    /\ view = NoView

\* -------------------------------------------------------------- actions
\* book_class hands a validated BookingRequest to create_booking.
Start(i) ==
    /\ pc[i] = "idle"
    /\ \E cid \in RequestIds, tz \in Timezones :
         req' = [req EXCEPT ![i] =
                   [class_id |-> cid, client_email |-> EmailOf(i),
                    timezone |-> tz]]
    /\ pc' = [pc EXCEPT ![i] = "select"]
    /\ UNCHANGED <<classes, ledger, class_data, booking_time, result,
                   attempts, wrote, earlier, failures, now, classes0,
                   seed_pc, seed_now>>
    /\ view' = NoView

\* datetime.utcnow(): the reading of the clock.
utcnow == now

\* Lines 18-28: read the class row, raise ValueError when it is missing or
\* has no free slot; otherwise draw the booking id and read the clock.
SelectStep(i) ==
    /\ pc[i] = "select"
    /\ LET class_row == SelectClass(classes, req[i].class_id) IN
         IF class_row = << >>
         THEN /\ result' = [result EXCEPT ![i] = "Class not found"]
              /\ pc' = [pc EXCEPT ![i] = "done"]
              /\ UNCHANGED <<class_data, booking_time>>
         ELSE IF NoSlots(class_row[1])
         THEN /\ result' = [result EXCEPT ![i] = "No available slots"]
              /\ pc' = [pc EXCEPT ![i] = "done"]
              /\ UNCHANGED <<class_data, booking_time>>
         ELSE /\ class_data' = [class_data EXCEPT ![i] = class_row[1]]
              /\ booking_time' = [booking_time EXCEPT ![i] = utcnow]
              /\ pc' = [pc EXCEPT ![i] = "insert"]
              /\ UNCHANGED result
    /\ UNCHANGED <<classes, ledger, req, attempts, wrote, earlier, failures,
                   now, classes0, seed_pc, seed_now>>
    /\ view' = NoView

\* Lines 30-36: INSERT INTO bookings, committed on its own.
InsertStep(i) ==
    /\ pc[i] = "insert"
    /\ ledger' = InsertBooking(ledger,
                    BookingRow(uuid4(i, attempts[i]), req[i], booking_time[i]))
    /\ wrote' = [wrote EXCEPT ![i].ins = @ + 1]
    /\ pc' = [pc EXCEPT ![i] = "update"]
    /\ UNCHANGED <<classes, req, class_data, booking_time, result, attempts,
                   earlier, failures, now, classes0, seed_pc, seed_now>>
    /\ view' = NoView

\* Lines 39-55: UPDATE classes, committed on its own, then the response is
\* built; convert_utc_to_local raises for a timezone pytz does not know.
UpdateStep(i) ==
    /\ pc[i] = "update"
    /\ classes' = DecrementSlots(classes, req[i].class_id)
    /\ wrote' = [wrote EXCEPT ![i].dec = @ + 1]
    /\ result' = [result EXCEPT ![i] =
                    IF validate_timezone(req[i].timezone)
                    THEN "confirmed" ELSE "UnknownTimeZoneError"]
    /\ pc' = [pc EXCEPT ![i] = "done"]
    /\ class_data' = [class_data EXCEPT ![i] = None]
    /\ booking_time' = [booking_time EXCEPT ![i] = None]
    /\ UNCHANGED <<ledger, req, attempts, earlier, failures, now, classes0,
                   seed_pc, seed_now>>
    /\ view' = NoView

\* (mutant: the exception is logged and the call goes on with its next step)
StorageFailureSwallowed(i) ==
    /\ pc[i] \in {"insert", "update"}
    /\ failures < MaxFailures
    /\ failures' = failures + 1
    /\ IF pc[i] = "insert"
       THEN /\ pc' = [pc EXCEPT ![i] = "update"]
            /\ UNCHANGED <<result, class_data, booking_time>>
       ELSE /\ pc' = [pc EXCEPT ![i] = "done"]
            /\ result' = [result EXCEPT ![i] = "confirmed"]
            /\ class_data' = [class_data EXCEPT ![i] = None]
            /\ booking_time' = [booking_time EXCEPT ![i] = None]
    /\ view' = NoView
    /\ UNCHANGED <<classes, ledger, req, attempts, wrote, earlier, now,
                   classes0, seed_pc, seed_now>>

\* database.py execute_query / execute_insert: the statement or the commit
\* raises, the connection rolls back and the exception leaves create_booking.
StorageFailure(i) ==
    /\ pc[i] \in {"select", "insert", "update"}
    /\ failures < MaxFailures
    /\ failures' = failures + 1
    /\ result' = [result EXCEPT ![i] = "PersistenceError"]
    /\ pc' = [pc EXCEPT ![i] = "done"]
    /\ class_data' = [class_data EXCEPT ![i] = None]
    /\ booking_time' = [booking_time EXCEPT ![i] = None]
    /\ UNCHANGED <<classes, ledger, req, attempts, wrote, earlier, now,
                   classes0, seed_pc, seed_now>>
    /\ view' = NoView

\* The caller of a request that failed with a storage error sends the same
\* request again.
Retry(i) ==
    /\ pc[i] = "done"
    /\ result[i] = "PersistenceError"
    /\ attempts' = [attempts EXCEPT ![i] = @ + 1]
    /\ earlier' = [earlier EXCEPT ![i] =
                     [ins |-> @.ins + wrote[i].ins, dec |-> @.dec + wrote[i].dec]]
    /\ wrote' = [wrote EXCEPT ![i] = NoWrites]
    /\ result' = [result EXCEPT ![i] = None]
    /\ pc' = [pc EXCEPT ![i] = "select"]
    /\ UNCHANGED <<classes, ledger, req, class_data, booking_time, failures,
                   now, classes0, seed_pc, seed_now>>
    /\ view' = NoView

Next ==
    \E i \in Calls :
        \/ Start(i)
        \/ SelectStep(i)
        \/ InsertStep(i)
        \/ UpdateStep(i)
        \/ StorageFailure(i)
        \/ Retry(i)

\* Callers that wait for the call in progress before they make the next one.
SeqStart(i) ==
    /\ \A j \in Calls : pc[j] \in {"idle", "done"}
    /\ Start(i)

SeqRetry(i) ==
    /\ \A j \in Calls : pc[j] \in {"idle", "done"}
    /\ Retry(i)

SeqNext ==
    \E i \in Calls :
        \/ SeqStart(i)
        \/ SelectStep(i)
        \/ InsertStep(i)
        \/ UpdateStep(i)
        \/ StorageFailure(i)
        \/ SeqRetry(i)

SeqSpec == Init /\ [][SeqNext]_vars

\* No step of create_booking branches on the clock, so Spec leaves it where
\* it stands; TimedSpec lets it advance between the steps.
Spec == Init /\ [][Next]_vars

\* Time passes between two readings of datetime.utcnow().
Tick ==
    /\ now < MaxTime
    /\ now' = now + 1
    /\ UNCHANGED <<classes, ledger, pc, req, class_data, booking_time, result,
                   attempts, wrote, earlier, failures, classes0, seed_pc,
                   seed_now>>
    /\ view' = NoView

TimedNext == Next \/ Tick

TimedSpec == Init /\ [][TimedNext]_vars

\* ---------------------------------------------------- views of the state
ClassIds == {classes[k].id : k \in DOMAIN classes}

ClassRow(tbl, cid) == tbl[CHOOSE k \in DOMAIN tbl : tbl[k].id = cid]

\* SELECT COUNT(*) FROM bookings WHERE class_id = ?
BookingsOf(cid) == {b \in ledger : b.class_id = cid}

CallsOn(cid) == {i \in Calls : req[i].class_id = cid}

Min(a, b) == IF a <= b THEN a ELSE b
Max(a, b) == IF a >= b THEN a ELSE b

\* What the calls 1..n that name class cid have written, over all attempts.
RECURSIVE WritesOn(_, _)
WritesOn(cid, n) ==
    IF n = 0 THEN NoWrites
    ELSE LET rest == WritesOn(cid, n - 1)
             mine == IF req[n].class_id = cid
                     THEN [ins |-> wrote[n].ins + earlier[n].ins,
                           dec |-> wrote[n].dec + earlier[n].dec]
                     ELSE NoWrites
         IN [ins |-> rest.ins + mine.ins, dec |-> rest.dec + mine.dec]

\* A call that ran once, met no storage failure and no unknown timezone.
Clean(i) ==
    /\ attempts[i] = 0
    /\ result[i] \in {None, "confirmed", "No available slots"}

Returned(i) == pc[i] = "done" /\ result[i] = "confirmed"

Rejected(i) == pc[i] = "done" /\ result[i] = "No available slots"

\* ------------------------------------------------------ read operations
\* Everything but view: what a read leaves as it is.  A read is served once
\* the response of the read before it has been returned (view = NoView).
stored == <<classes, ledger, pc, req, class_data, booking_time, result,
            attempts, wrote, earlier, failures, now, classes0, seed_pc,
            seed_now>>

\* client_email values the bookings query is asked for.
QueryEmails == {"a@x.com", "b@x.com", "nobody@x.com"}

\* pytz offset of the zones the requests use, in clock units.
UtcOffset(tz) == IF tz = "Asia/Kolkata" THEN 1 ELSE 0

\* timezone_utils.py convert_utc_to_local: the stored UTC reading moved to
\* the zone and formatted; the string no longer says which zone it is in.
convert_utc_to_local(utc, tz) == utc + UtcOffset(tz)

\* SELECT b.*, c.name as class_name, c.instructor, c.datetime_utc
\* FROM bookings b JOIN classes c ON b.class_id = c.id
\* WHERE b.client_email = ?
JoinBookings(email) ==
    UNION {{[id |-> b.id, class_id |-> b.class_id,
             client_email |-> b.client_email, booking_time |-> b.booking_time,
             status |-> b.status, class_name |-> classes[k].name,
             instructor |-> classes[k].instructor,
             datetime_utc |-> classes[k].datetime_utc] :
               k \in {k \in DOMAIN classes : classes[k].id = b.class_id}} :
           b \in {b \in ledger : b.client_email = email}}

\* (mutant: the order is ascending)
RECURSIVE OrderByBookingTimeAsc(_)
OrderByBookingTimeAsc(rows) ==
    IF rows = {} THEN {<< >>}
    ELSE LET first == {r \in rows :
                         \A q \in rows : r.booking_time <= q.booking_time}
         IN UNION {{<<r>> \o rest : rest \in OrderByBookingTimeAsc(rows \ {r})} :
                   r \in first}

\* ORDER BY b.booking_time DESC: every order of the rows that puts no row
\* before one with a later booking_time; SQL leaves the order of equal
\* values open.
RECURSIVE OrderByBookingTimeDesc(_)
OrderByBookingTimeDesc(rows) ==
    IF rows = {} THEN {<< >>}
    ELSE LET first == {r \in rows :
                         \A q \in rows : r.booking_time >= q.booking_time}
         IN UNION {{<<r>> \o rest : rest \in OrderByBookingTimeDesc(rows \ {r})} :
                   r \in first}

\* Lines 66-79: the BookingResponse built from one row of the result.
BookingResponse(row) ==
    [id |-> row.id, class_id |-> row.class_id, class_name |-> row.class_name,
     instructor |-> row.instructor, client_email |-> row.client_email,
     class_datetime_local |-> convert_utc_to_local(row.datetime_utc, "Asia/Kolkata"),
     timezone |-> "Asia/Kolkata",
     booking_time |-> convert_utc_to_local(row.booking_time, "Asia/Kolkata"),
     status |-> row.status]

\* BookingService.get_bookings_by_email: the lists it can return.
get_bookings_by_email(email) ==
    {[k \in 1..Len(rows) |-> BookingResponse(rows[k])] :
       rows \in OrderByBookingTimeDesc(JoinBookings(email))}

\* GET /bookings?email=...
GetBookingsByEmail ==
    /\ view = NoView
    /\ \E email \in QueryEmails :
         \E rows \in get_bookings_by_email(email) :
            view' = [op |-> "bookings", email |-> email, rows |-> rows]
    /\ UNCHANGED stored

\* Query parameters of GET /classes.  instructor "" stands for the absent
\* parameter; limit has an upper bound only (le=MAX_PAGE_SIZE), offset ge=0.
DEFAULT_PAGE_SIZE == 50
Instructors == {"", "Priya Sharma"}
Limits == {0 - 1, 1, DEFAULT_PAGE_SIZE}
Offsets == {0, 1}
DEFAULT_TIMEZONE == "Asia/Kolkata"

\* SELECT * FROM classes [WHERE datetime_utc > ? [AND instructor = ?]] with
\* ? = datetime.now(UTC); `if instructor:` adds its filter for a non-empty
\* string only.
FilterClasses(upcoming_only, instructor) ==
    {classes[k] : k \in {k \in DOMAIN classes :
        /\ upcoming_only => classes[k].datetime_utc > now
        /\ instructor # "" => classes[k].instructor = instructor}}

\* ORDER BY datetime_utc ASC, equal values in any order.
RECURSIVE OrderByDatetimeAsc(_)
OrderByDatetimeAsc(rows) ==
    IF rows = {} THEN {<< >>}
    ELSE LET first == {r \in rows :
                         \A q \in rows : r.datetime_utc <= q.datetime_utc}
         IN UNION {{<<r>> \o rest : rest \in OrderByDatetimeAsc(rows \ {r})} :
                   r \in first}

\* LIMIT ? OFFSET ?: SQLite reads a negative LIMIT as no limit and a negative
\* OFFSET as 0.
LimitOffset(rows, limit, offset) ==
    LET skip == IF offset < 0 THEN 0 ELSE offset
        rest == SubSeq(rows, skip + 1, Len(rows))
    IN IF limit < 0 \/ limit >= Len(rest) THEN rest ELSE SubSeq(rest, 1, limit)

\* class_models.py ClassResponse: available_slots has ge=0, total_slots ge=1;
\* constructing it from a row outside these raises ValidationError.
ClassResponseValid(row) == row.available_slots >= 0 /\ row.total_slots >= 1

ClassResponse(row, tz) ==
    [id |-> row.id, name |-> row.name, instructor |-> row.instructor,
     datetime_local |-> convert_utc_to_local(row.datetime_utc, tz),
     timezone |-> tz, available_slots |-> row.available_slots,
     total_slots |-> row.total_slots]

\* ClassService.get_classes: what it can return or raise.
get_classes(tz, upcoming_only, instructor, limit, offset) ==
    {LET page == LimitOffset(rows, limit, offset) IN
       IF \A k \in DOMAIN page : ClassResponseValid(page[k])
       THEN [outcome |-> "ok",
             rows |-> [k \in DOMAIN page |-> ClassResponse(page[k], tz)]]
       ELSE [outcome |-> "ValidationError", rows |-> << >>] :
     rows \in OrderByDatetimeAsc(FilterClasses(upcoming_only, instructor))}

\* GET /classes
GetClasses ==
    /\ view = NoView
    /\ \E upcoming_only \in BOOLEAN, instructor \in Instructors,
          limit \in Limits, offset \in Offsets :
         \E r \in get_classes(DEFAULT_TIMEZONE, upcoming_only, instructor,
                              limit, offset) :
            view' = [op |-> "classes", upcoming_only |-> upcoming_only,
                     instructor |-> instructor, limit |-> limit,
                     offset |-> offset, outcome |-> r.outcome, rows |-> r.rows]
    /\ UNCHANGED stored

\* ClassService.get_class_by_id: None, the ClassResponse, or ValidationError.
get_class_by_id(class_id, tz) ==
    LET rows == SelectClass(classes, class_id) IN
      IF rows = << >> THEN [outcome |-> "None", rows |-> << >>]
      ELSE IF ClassResponseValid(rows[1])
      THEN [outcome |-> "ok", rows |-> <<ClassResponse(rows[1], tz)>>]
      ELSE [outcome |-> "ValidationError", rows |-> << >>]

\* GET /classes/{class_id}
GetClassById ==
    /\ view = NoView
    /\ \E class_id \in RequestIds :
         LET r == get_class_by_id(class_id, DEFAULT_TIMEZONE) IN
           view' = [op |-> "class", class_id |-> class_id,
                    outcome |-> r.outcome, rows |-> r.rows]
    /\ UNCHANGED stored

\* SELECT instructor, COUNT(*) ... GROUP BY instructor ORDER BY count DESC
\* LIMIT 1: an instructor no other has more classes than, None without classes.
PopularInstructors ==
    LET names == {classes[k].instructor : k \in DOMAIN classes}
        count(n) == Cardinality({k \in DOMAIN classes : classes[k].instructor = n})
    IN IF names = {} THEN {None}
       ELSE {n \in names : \A m \in names : count(n) >= count(m)}

\* ClassService.get_class_stats; its four SELECTs are taken as one reading.
GetClassStats ==
    /\ view = NoView
    /\ \E popular \in PopularInstructors :
         view' = [op |-> "stats",
                  total_classes |-> Len(classes),
                  upcoming_classes |->
                    Cardinality({k \in DOMAIN classes : classes[k].datetime_utc > now}),
                  total_bookings |-> Cardinality(ledger),
                  popular_instructor |-> popular]
    /\ UNCHANGED stored

\* The instructor names of the sample classes in ascending (BINARY) order.
InstructorOrder == <<"Anjali Rao", "Priya Sharma", "Rahul Mehta">>

\* SELECT DISTINCT instructor FROM classes ORDER BY instructor ASC
get_instructors ==
    SelectSeq(InstructorOrder,
              LAMBDA n : \E k \in DOMAIN classes : classes[k].instructor = n)

\* GET /classes/instructors
GetInstructors ==
    /\ view = NoView
    /\ view' = [op |-> "instructors", rows |-> get_instructors]
    /\ UNCHANGED stored

Read ==
    \/ GetBookingsByEmail
    \/ GetClasses
    \/ GetClassById
    \/ GetClassStats
    \/ GetInstructors

\* Bookings and the read operations, all interleaved.
QueryNext == Next \/ Read

QuerySpec == Init /\ [][QueryNext]_vars

\* -------------------------------------------------------------- seeding
\* The row a run that read the clock at t inserts for sample n; AUTOINCREMENT
\* gives it the id after the largest one used (no row is ever deleted).
SeedInsertRow(n, t) ==
    [SeedRow(n) EXCEPT !.id = Len(classes) + 1,
                       !.datetime_utc = t + SampleClasses[n].days]

\* seed_data.py lines 11-13: get_table_count("classes") > 0 returns at once,
\* otherwise the run reads the clock and goes on to insert.
SeedCheck(s) ==
    /\ seed_pc[s].at = "idle"
    /\ IF Len(classes) > 0
       THEN /\ seed_pc' = [seed_pc EXCEPT ![s] = [at |-> "done", n |-> 0]]
            /\ UNCHANGED seed_now
       ELSE /\ seed_pc' = [seed_pc EXCEPT ![s] = [at |-> "insert", n |-> 1]]
            /\ seed_now' = [seed_now EXCEPT ![s] = utcnow]
    /\ view' = NoView
    /\ UNCHANGED <<classes, ledger, pc, req, class_data, booking_time, result,
                   attempts, wrote, earlier, failures, now, classes0>>

\* database.py get_table_count lines 170-177: the COUNT raises, the except
\* clause logs it and returns 0, and the run goes on to insert.
SeedCountFails(s) ==
    /\ seed_pc[s].at = "idle"
    /\ failures < MaxFailures
    /\ failures' = failures + 1
    /\ seed_pc' = [seed_pc EXCEPT ![s] = [at |-> "insert", n |-> 1]]
    /\ seed_now' = [seed_now EXCEPT ![s] = utcnow]
    /\ view' = NoView
    /\ UNCHANGED <<classes, ledger, pc, req, class_data, booking_time, result,
                   attempts, wrote, earlier, now, classes0>>

\* Lines 21-28: one execute_insert per sample class, each committed on its own.
SeedInsert(s) ==
    /\ seed_pc[s].at = "insert"
    /\ classes' = Append(classes, SeedInsertRow(seed_pc[s].n, seed_now[s]))
    /\ seed_pc' = [seed_pc EXCEPT ![s] =
                     IF seed_pc[s].n = Len(SampleClasses)
                     THEN [at |-> "done", n |-> 0]
                     ELSE [at |-> "insert", n |-> seed_pc[s].n + 1]]
    /\ view' = NoView
    /\ UNCHANGED <<ledger, pc, req, class_data, booking_time, result, attempts,
                   wrote, earlier, failures, now, classes0, seed_now>>

\* execute_insert raises: the exception leaves seed_sample_data and the run
\* ends with the rows it has committed so far.
SeedInsertFails(s) ==
    /\ seed_pc[s].at = "insert"
    /\ failures < MaxFailures
    /\ failures' = failures + 1
    /\ seed_pc' = [seed_pc EXCEPT ![s] = [at |-> "failed", n |-> 0]]
    /\ view' = NoView
    /\ UNCHANGED <<classes, ledger, pc, req, class_data, booking_time, result,
                   attempts, wrote, earlier, now, classes0, seed_now>>

Seed ==
    \E s \in Seeders :
        \/ SeedCheck(s)
        \/ SeedCountFails(s)
        \/ SeedInsert(s)
        \/ SeedInsertFails(s)

\* Runs of seed_sample_data and bookings, all interleaved.
SeedNext == Seed \/ Next

SeedSpec == Init /\ [][SeedNext]_vars

\* ---------------------------------------------------------------- claims
\* C1: for a class with availableSlots = k and N concurrent create_booking
\* calls on it (no other failure), once all N have ended exactly min(k, N)
\* returned a booking, the others were rejected with "No available slots",
\* and availableSlots is max(0, k - N).
C1_ExactlyMinSucceed ==
    \A cid \in ClassIds :
        LET on == CallsOn(cid)
            N == Cardinality(on)
            k == ClassRow(classes0, cid).available_slots
        IN (/\ N > 0
            /\ \A i \in on : Clean(i) /\ pc[i] = "done")
           => /\ Cardinality({i \in on : Returned(i)}) = Min(k, N)
              /\ Cardinality({i \in on : Rejected(i)}) = N - Min(k, N)
              /\ ClassRow(classes, cid).available_slots = Max(0, k - N)

\* C2: in every reachable state every class has
\* 0 <= available_slots <= total_slots.
C2_SlotsInRange ==
    \A k \in DOMAIN classes :
        /\ 0 <= classes[k].available_slots
        /\ classes[k].available_slots <= classes[k].total_slots

\* C3: no state has a call whose booking row is stored while its decrement
\* is not (or the reverse): the two writes become visible together.
C3_WritesTogether ==
    \A i \in Calls : wrote[i].ins = wrote[i].dec

\* C4: a call that ended in a failure reported to its caller has written
\* nothing: neither a booking row nor a decrement.
C4_FailureWritesNothing ==
    \A i \in Calls :
        (pc[i] = "done" /\ result[i] # "confirmed") => wrote[i] = NoWrites

\* What holds of call i while its class_id names no class.
UnknownClassOutcome(i) ==
    (pc[i] # "idle" /\ req[i].class_id \notin ClassIds)
    => /\ pc[i] \in {"select", "done"}
       /\ wrote[i] = NoWrites /\ earlier[i] = NoWrites
       /\ pc[i] = "done" =>
            result[i] \in {"Class not found", "PersistenceError"}
       /\ (pc[i] = "done" /\ failures = 0) => result[i] = "Class not found"
       /\ \A b \in ledger : b.id[1] # i

\* C5: a call whose class_id names no class never writes and never returns
\* a booking; it ends with "Class not found" (or, when the SELECT itself
\* raises, with that storage error), in the empty and in the seeded catalog;
\* no step it takes changes a table.
C5_UnknownClassRejected ==
    [][\A i \in Calls :
         /\ UnknownClassOutcome(i)'
         /\ (req'[i].class_id \notin ClassIds /\ pc'[i] # pc[i])
            => classes' = classes /\ ledger' = ledger]_vars

C5_Witness ==
    /\ classes = << >>
    /\ \E i \in Calls :
         pc[i] = "done" /\ req[i].class_id = 999 /\ result[i] = "Class not found"

C7_SequentialBookings ==
    \A cid \in ClassIds :
        LET on == {i \in CallsOn(cid) : pc[i] = "done"}
            n == Cardinality(on)
            k == ClassRow(classes0, cid).available_slots
        IN (\A i \in CallsOn(cid) : Clean(i) /\ pc[i] \in {"select", "done"})
           => /\ Cardinality({i \in on : Returned(i)}) = Min(k, n)
              /\ Cardinality({i \in on : Rejected(i)}) = n - Min(k, n)
              /\ ClassRow(classes, cid).available_slots = k - Min(k, n)
              /\ \A i \in on :
                   Rejected(i) => ClassRow(classes, cid).available_slots = 0

C7_Witness ==
    \E i, j \in Calls :
        /\ req[i].class_id = req[j].class_id
        /\ Clean(i) /\ Clean(j)
        /\ Returned(i) /\ Rejected(j)
        /\ ClassRow(classes0, req[i].class_id).available_slots = 1
        /\ ClassRow(classes, req[i].class_id).available_slots = 0

\* C8: a call that returns a booking has written exactly one booking row
\* and one decrement.  Its INSERT adds exactly one row, for the requested
\* class, with status "confirmed" and an id no stored row has, and leaves
\* the classes table alone; its UPDATE takes exactly 1 from available_slots
\* of the requested class and leaves every other class, every total_slots
\* and every booking row as they were.
C8_SuccessEffect ==
    [][\A i \in Calls :
         /\ Returned(i)' => wrote'[i] = [ins |-> 1, dec |-> 1]
         /\ (pc[i] = "insert" /\ pc'[i] = "update")
            => /\ classes' = classes
               /\ \E row \in ledger' :
                    /\ row \notin ledger
                    /\ ledger' = ledger \cup {row}
                    /\ row.class_id = req[i].class_id
                    /\ row.status = "confirmed"
                    /\ \A b \in ledger : b.id # row.id
         /\ (pc[i] = "update" /\ pc'[i] = "done" /\ wrote'[i] # wrote[i])
            => /\ ledger' = ledger
               /\ DOMAIN classes' = DOMAIN classes
               /\ \A k \in DOMAIN classes :
                    IF classes[k].id = req[i].class_id
                    THEN classes'[k] =
                           [classes[k] EXCEPT !.available_slots = @ - 1]
                    ELSE classes'[k] = classes[k]]_vars

C8_Witness ==
    \E i \in Calls :
        /\ Returned(i)
        /\ \E b \in ledger : b.id[1] = i /\ b.class_id = req[i].class_id

\* C9: no call waits for another: whatever the other calls are doing, the
\* next step of a call is enabled; and the row and the bookings of a class
\* change only by the writes of the calls that name that class, so a call on
\* class B reads and leaves what it would without the calls on class A.
C9_NoBlocking ==
    /\ \A i \in Calls :
         /\ pc[i] = "select" => ENABLED SelectStep(i)
         /\ pc[i] = "insert" => ENABLED InsertStep(i)
         /\ pc[i] = "update" => ENABLED UpdateStep(i)
    /\ \A cid \in ClassIds :
         LET w == WritesOn(cid, NumCalls)
             row0 == ClassRow(classes0, cid)
         IN /\ ClassRow(classes, cid).available_slots =
                 row0.available_slots - w.dec
            /\ Cardinality(BookingsOf(cid)) =
                 (row0.total_slots - row0.available_slots) + w.ins

C9_Witness ==
    \E i, j \in Calls :
        /\ req[i].class_id \in ClassIds /\ req[j].class_id \in ClassIds
        /\ req[i].class_id # req[j].class_id
        /\ pc[i] = "update"
        /\ Returned(j)
        /\ ClassRow(classes, req[j].class_id).available_slots =
             ClassRow(classes0, req[j].class_id).available_slots - 1

\* C10: a request that failed with a storage error and was sent again until
\* it returned a booking has, over all its attempts, stored exactly one
\* booking row and taken exactly one slot.
C10_RetryWritesOnce ==
    \A i \in Calls :
        (Returned(i) /\ attempts[i] > 0)
        => /\ earlier[i].ins + wrote[i].ins = 1
           /\ earlier[i].dec + wrote[i].dec = 1
           /\ Cardinality({b \in ledger : b.id[1] = i}) = 1

C12_ListClasses ==
    view.op = "classes" =>
        LET rows == view.rows
            matches == {c \in DOMAIN classes :
                          /\ view.upcoming_only => classes[c].datetime_utc > now
                          /\ view.instructor # "" =>
                               classes[c].instructor = view.instructor}
            Of(k) == CHOOSE c \in DOMAIN classes : classes[c].id = rows[k].id
            Before(k) == {c \in matches :
                            classes[c].datetime_utc < classes[Of(k)].datetime_utc}
            UpTo(k) == {c \in matches :
                          classes[c].datetime_utc <= classes[Of(k)].datetime_utc}
        IN /\ view.outcome = "ok"
           /\ Len(rows) <= view.limit
           /\ Len(rows) =
                Min(view.limit, Max(0, Cardinality(matches) - view.offset))
           /\ \A k \in DOMAIN rows :
                /\ \E c \in matches : classes[c].id = rows[k].id
                /\ rows[k].available_slots = classes[Of(k)].available_slots
                /\ rows[k].total_slots = classes[Of(k)].total_slots
                /\ Cardinality(Before(k)) <= view.offset + k - 1
                /\ Cardinality(UpTo(k)) >= view.offset + k
           /\ \A j, k \in DOMAIN rows :
                j < k => /\ rows[j].id # rows[k].id
                         /\ classes[Of(j)].datetime_utc <= classes[Of(k)].datetime_utc

\* C13: no step removes or modifies a stored booking, deletes a class,
\* changes a total_slots or raises an available_slots; a step that serves a
\* read (list classes, class by id, stats, instructors, bookings by email)
\* changes neither table nor anything else the writers keep.
C13_AllowedChanges ==
    [][/\ ledger \subseteq ledger'
       /\ \A b \in ledger : \A q \in ledger' : q.id = b.id => q = b
       /\ Len(classes') >= Len(classes)
       /\ \A k \in DOMAIN classes :
            /\ classes'[k].id = classes[k].id
            /\ classes'[k].total_slots = classes[k].total_slots
            /\ classes'[k].available_slots <= classes[k].available_slots
       /\ view'.op # "none" => stored' = stored]_vars

C13_Witness ==
    /\ view.op \in {"classes", "class", "stats", "instructors", "bookings"}
    /\ \E i \in Calls :
         /\ Returned(i)
         /\ \E b \in ledger : b.id[1] = i
         /\ ClassRow(classes, req[i].class_id).available_slots <
              ClassRow(classes0, req[i].class_id).available_slots

\* C14: the class_id of every stored booking is the id of a stored class.
C14_BookingReferencesClass ==
    \A b \in ledger : b.class_id \in ClassIds

C14_Witness ==
    \E i, j \in Calls :
        /\ pc[i] = "done"
        /\ \E b \in ledger : b.id[1] = i /\ b.class_id \in ClassIds
        /\ pc[j] = "done" /\ req[j].class_id \notin ClassIds
        /\ \A b \in ledger : b.id[1] # j

\* The place of a pc value in the order of the steps of create_booking.
StepRank(p) ==
    CASE p = "idle" -> 0
      [] p = "select" -> 1
      [] p = "insert" -> 2
      [] p = "update" -> 3
      [] p = "done" -> 4

\* C15: create_booking neither swallows nor retries: a call returns a booking
\* only with both writes applied; a step in which a storage operation fails
\* ends the call with that error; within one call the steps only go forward
\* and each write is made at most once; "Class not found" is the outcome
\* exactly for a class_id no class has and "No available slots" only for one
\* a class has, so the caller can tell them apart.
C15_NoSwallowNoRetry ==
    [][\A i \in Calls :
         /\ Returned(i)' => wrote'[i] = [ins |-> 1, dec |-> 1]
         /\ (failures' > failures /\ pc'[i] # pc[i])
            => pc'[i] = "done" /\ result'[i] = "PersistenceError"
               /\ classes' = classes /\ ledger' = ledger
         /\ attempts'[i] = attempts[i]
            => /\ StepRank(pc'[i]) >= StepRank(pc[i])
               /\ wrote'[i].ins <= 1 /\ wrote'[i].dec <= 1
         /\ (pc'[i] = "done" /\ result'[i] = "Class not found")
            => req'[i].class_id \notin ClassIds
         /\ Rejected(i)' => req'[i].class_id \in ClassIds
         /\ (pc[i] = "select" /\ pc'[i] = "done" /\ failures' = failures)
            => result'[i] \in {"Class not found", "No available slots"}]_vars

C15_Witness ==
    \E i, j \in Calls :
        /\ pc[i] = "done" /\ result[i] = "PersistenceError"
        /\ wrote[i] = [ins |-> 1, dec |-> 0]
        /\ pc[j] = "done"
        /\ result[j] \in {"Class not found", "No available slots"}

\* C16: once a run of seed_sample_data has returned and none is in progress
\* or has raised, the catalog holds each of the three sample classes exactly
\* once, however the runs were made: one after another, overlapping, or
\* among bookings.
C16_SeededOnce ==
    (/\ \E s \in Seeders : seed_pc[s].at = "done"
     /\ \A s \in Seeders : seed_pc[s].at \in {"idle", "done"})
    => \A n \in DOMAIN SampleClasses :
         Cardinality({k \in DOMAIN classes :
                        classes[k].name = SampleClasses[n].name}) = 1

\* C17: in every reachable state the number of stored bookings of a class is
\* at most the total_slots of that class.
C17_NeverOverbooked ==
    \A cid \in ClassIds :
        Cardinality(BookingsOf(cid)) <= ClassRow(classes, cid).total_slots

\* C18: whenever no create_booking call is in progress, every class has
\* total_slots - available_slots = the number of its stored bookings.
C18_SlotsConserved ==
    (\A i \in Calls : pc[i] \in {"idle", "done"})
    => \A cid \in ClassIds :
         LET row == ClassRow(classes, cid)
         IN row.total_slots - row.available_slots = Cardinality(BookingsOf(cid))

====
